---- MODULE Spec2Model ----
(***************************************************************************)
(* TaskFlow: the relational store of the migration (tables, foreign keys,  *)
(* unique constraints, row-level security policies, triggers) and the      *)
(* handlers of the React views that issue statements against it.           *)
(***************************************************************************)
EXTENDS Integers, FiniteSets, Sequences, TLC

\* ------------------------------------------------------------------ bounds
MaxUsers == 2
MaxRows == 2
MaxTime == 2
MaxDates == 2
MaxTasks == 2

\* SQL NULL (nullable columns such as tasks.category_id, tasks.completed_at);
\* also auth.uid() of a request that carries no session.
NULL == 0

Users == 1..MaxUsers
RowIds == 1..MaxRows
Times == 1..MaxTime
Dates == 1..MaxDates

app_role == {"admin", "user"}
task_status == {"pending", "in_progress", "completed", "cancelled"}

OwnedTables == {"categories", "tasks", "subtasks", "reminders", "notifications", "analytics"}
Tables == OwnedTables \cup {"profiles", "user_roles"}

VARIABLES
  db,       \* the store: auth_users and one field per table (id -> row)
  nextId,   \* the next generated row id (gen_random_uuid: never reused)
  now,      \* the clock read by now() and new Date()
  insertedBy,  \* history: row id -> the identity whose request inserted it
  tasksView,  \* the tasks state of TasksView: id -> the row as fetched
  categoriesView,  \* the categories state of CategoriesView: the ids listed
  toast,     \* the kind of the toast shown last: "none", "success", "error"
  opFailed,  \* history: the write sent by the last handler came back with an error
  lastWrite,  \* history: task id -> column -> the value an update wrote last, and who
  session,   \* useAuth().user of the browser: an identity, or NULL when signed out
  showDialog,  \* the showDialog state of the mounted view
  remindersView,  \* the reminders state of RemindersView: the ids listed
  subtasksView,  \* the subtasks state of TasksView: task id -> the ids listed
  adminView,  \* AdminView: users (id -> role shown) and tasks (the ids listed)
  dashboard   \* Dashboard: the tasks shown, the fetchTasks calls started and in
              \* flight, the realtime events not yet handled, and (history)
              \* the number of the call whose response was applied last

\* the state of the views
\* the state of the views other than TasksView, and the history of writes
restViews == <<session, remindersView, subtasksView, adminView, dashboard>>

moreViews == <<showDialog, restViews>>

otherViews == <<categoriesView, toast, opFailed, lastWrite, moreViews>>

viewVars == <<tasksView, otherViews>>

vars == <<db, nextId, now, insertedBy, viewVars>>

\* ---------------------------------------------------------------- helpers
Put(f, k, v) == [x \in DOMAIN f \cup {k} |-> IF x = k THEN v ELSE f[x]]

Drop(f, S) == [x \in DOMAIN f \ S |-> f[x]]

Apply_keeps_first_stamp(row, patch) ==
  [c \in DOMAIN row |->
     IF c \in DOMAIN patch /\ ~(c = "completed_at" /\ row[c] # NULL /\ patch[c] # NULL)
       THEN patch[c] ELSE row[c]]

\* NEW := OLD with the columns of the SET list overwritten
Apply(row, patch) == [c \in DOMAIN row |-> IF c \in DOMAIN patch THEN patch[c] ELSE row[c]]

EmptyDb ==
  [ auth_users |-> {},
    profiles |-> <<>>, user_roles |-> <<>>, categories |-> <<>>, tasks |-> <<>>,
    subtasks |-> <<>>, reminders |-> <<>>, notifications |-> <<>>, analytics |-> <<>> ]

\* the owner column of a row: user_id, and id for profiles
OwnerOf(tbl, id, row) == IF tbl = "profiles" THEN id ELSE row.user_id

\* ---------------------------------------------------- row-level security
\* has_role evaluated on store d
has_role_on(d, _user_id, _role) ==
  \E id \in DOMAIN d.user_roles :
     d.user_roles[id].user_id = _user_id /\ d.user_roles[id].role = _role

has_role_any_role(_user_id, _role) ==
  \E id \in DOMAIN db.user_roles : db.user_roles[id].user_id = _user_id

has_role(_user_id, _role) == has_role_on(db, _user_id, _role)


\* tables with an "Admins can view all ..." policy
AdminReadTables == {"categories", "tasks", "analytics"}

Policy_admin_writes(tbl, cmd, uid, id, row) ==
  CASE tbl = "profiles" -> cmd \in {"SELECT", "UPDATE", "INSERT"} /\ uid = id
    [] tbl = "user_roles" -> (cmd = "SELECT" /\ uid = row.user_id) \/ has_role(uid, "admin")
    [] tbl \in AdminReadTables -> uid = row.user_id \/ has_role(uid, "admin")
    [] OTHER -> uid = row.user_id

Policy_admin_reads_all(tbl, cmd, uid, id, row) ==
  CASE tbl = "profiles" -> cmd \in {"SELECT", "UPDATE", "INSERT"} /\ uid = id
    [] tbl = "user_roles" -> (cmd = "SELECT" /\ uid = row.user_id) \/ has_role(uid, "admin")
    [] OTHER -> uid = row.user_id \/ (cmd = "SELECT" /\ has_role(uid, "admin"))

Policy_no_insert_check(tbl, cmd, uid, id, row) ==
  CASE tbl = "profiles" -> cmd \in {"SELECT", "UPDATE", "INSERT"} /\ uid = id
    [] tbl = "user_roles" -> (cmd = "SELECT" /\ uid = row.user_id) \/ has_role(uid, "admin")
    [] tbl \in AdminReadTables ->
         cmd = "INSERT" \/ uid = row.user_id \/ (cmd = "SELECT" /\ has_role(uid, "admin"))
    [] OTHER -> cmd = "INSERT" \/ uid = row.user_id

Policy_roles_read_only(tbl, cmd, uid, id, row) ==
  CASE tbl = "profiles" -> cmd \in {"SELECT", "UPDATE", "INSERT"} /\ uid = id
    [] tbl = "user_roles" -> cmd = "SELECT" /\ (uid = row.user_id \/ has_role(uid, "admin"))
    [] tbl \in AdminReadTables -> uid = row.user_id \/ (cmd = "SELECT" /\ has_role(uid, "admin"))
    [] OTHER -> uid = row.user_id

Policy_admin_reads_profiles(tbl, cmd, uid, id, row) ==
  CASE tbl = "profiles" ->
         (cmd \in {"SELECT", "UPDATE", "INSERT"} /\ uid = id) \/ (cmd = "SELECT" /\ has_role(uid, "admin"))
    [] tbl = "user_roles" -> (cmd = "SELECT" /\ uid = row.user_id) \/ has_role(uid, "admin")
    [] tbl \in AdminReadTables -> uid = row.user_id \/ (cmd = "SELECT" /\ has_role(uid, "admin"))
    [] OTHER -> uid = row.user_id

Policy_own_roles_managed(tbl, cmd, uid, id, row) ==
  CASE tbl = "profiles" -> cmd \in {"SELECT", "UPDATE", "INSERT"} /\ uid = id
    [] tbl = "user_roles" -> uid = row.user_id \/ has_role(uid, "admin")
    [] tbl \in AdminReadTables -> uid = row.user_id \/ (cmd = "SELECT" /\ has_role(uid, "admin"))
    [] OTHER -> uid = row.user_id

PolicyOn_role_of_owner(d, tbl, cmd, uid, id, row) ==
  CASE tbl = "profiles" -> cmd \in {"SELECT", "UPDATE", "INSERT"} /\ uid = id
    [] tbl = "user_roles" -> (cmd = "SELECT" /\ uid = row.user_id) \/ has_role_on(d, uid, "admin")
    [] tbl \in AdminReadTables ->
         uid = row.user_id \/ (cmd = "SELECT" /\ has_role_on(d, row.user_id, "admin"))
    [] OTHER -> uid = row.user_id

\* The permissive policies of tbl that apply to cmd, OR-ed, on store d: the
\* USING expression on an existing row, and (a policy without WITH CHECK
\* reuses its USING expression) the WITH CHECK expression on a new row.
PolicyOn(d, tbl, cmd, uid, id, row) ==
  CASE tbl = "profiles" -> cmd \in {"SELECT", "UPDATE", "INSERT"} /\ uid = id
    [] tbl = "user_roles" -> (cmd = "SELECT" /\ uid = row.user_id) \/ has_role_on(d, uid, "admin")
    [] tbl \in AdminReadTables ->
         uid = row.user_id \/ (cmd = "SELECT" /\ has_role_on(d, uid, "admin"))
    [] OTHER -> uid = row.user_id

\* the policies on the current store
Policy(tbl, cmd, uid, id, row) == PolicyOn(db, tbl, cmd, uid, id, row)

\* select * from tbl, as uid, on store d: the policies filter the rows
SelectOn(d, tbl, uid) ==
  {id \in DOMAIN d[tbl] : PolicyOn(d, tbl, "SELECT", uid, id, d[tbl][id])}

\* select * from tbl, as uid
Select(tbl, uid) ==
  {id \in DOMAIN db[tbl] : Policy(tbl, "SELECT", uid, id, db[tbl][id])}

\* ------------------------------------------------------------ constraints
\* REFERENCES auth.users(id), tasks(id), categories(id); NOT NULL
ForeignKeysOk(d, tbl, id, row) ==
  /\ OwnerOf(tbl, id, row) \in d.auth_users
  /\ tbl = "tasks" => row.category_id \in DOMAIN d.categories \cup {NULL}
  /\ tbl \in {"subtasks", "reminders"} => row.task_id \in DOMAIN d.tasks
  /\ tbl = "notifications" => row.task_id \in DOMAIN d.tasks \cup {NULL}

UniqueOk_no_role_pair(d, tbl, id, row) ==
  tbl = "analytics" =>
    \A o \in DOMAIN d.analytics \ {id} :
       ~(d.analytics[o].user_id = row.user_id /\ d.analytics[o].date = row.date)

UniqueOk_none(d, tbl, id, row) == TRUE

\* UNIQUE (user_id, role), UNIQUE (user_id, date)
UniqueOk(d, tbl, id, row) ==
  /\ tbl = "user_roles" =>
       \A o \in DOMAIN d.user_roles \ {id} :
          ~(d.user_roles[o].user_id = row.user_id /\ d.user_roles[o].role = row.role)
  /\ tbl = "analytics" =>
       \A o \in DOMAIN d.analytics \ {id} :
          ~(d.analytics[o].user_id = row.user_id /\ d.analytics[o].date = row.date)

\* --------------------------------------------------------------- triggers
TouchedTables == {"profiles", "categories", "tasks", "subtasks"}

update_updated_at_column_keeps_supplied(tbl, new) == new

\* BEFORE UPDATE ... FOR EACH ROW: NEW.updated_at = now()
update_updated_at_column(tbl, new) ==
  IF tbl \in TouchedTables THEN [new EXCEPT !.updated_at = now] ELSE new

\* ------------------------------------------------------------- statements
\* What the caller gets back: the store after the statement, the SQLSTATE
\* of the error ("none": no error) and the rows inserted, updated or deleted.
\* 42501: row-level security; 23505: unique; 23503: foreign key.
Result(d, err, ids) == [db |-> d, err |-> err, ids |-> ids]

\* gen_random_uuid() for user_roles.id; no row and no view refers to it
NewRoleId(d) == CHOOSE i \in 1..(2 * MaxUsers + 1) : i \notin DOMAIN d.user_roles

\* insert into tbl values (row), as uid, on store d
InsertOn(d, uid, tbl, id, row) ==
  IF ~Policy(tbl, "INSERT", uid, id, row) THEN Result(d, "42501", {})
  ELSE IF id \in DOMAIN d[tbl] \/ ~UniqueOk(d, tbl, id, row) THEN Result(d, "23505", {})
  ELSE IF ~ForeignKeysOk(d, tbl, id, row) THEN Result(d, "23503", {})
  ELSE Result([d EXCEPT ![tbl] = Put(@, id, row)], "none", {id})

InsertStmt(uid, tbl, id, row) == InsertOn(db, uid, tbl, id, row)

\* update tbl set patch where id = id, as uid
UpdateStmt(uid, tbl, id, patch) ==
  IF id \notin DOMAIN db[tbl] THEN Result(db, "none", {})
  ELSE
    LET old == db[tbl][id]
        new == update_updated_at_column(tbl, Apply(old, patch))
    IN  IF ~(Policy(tbl, "SELECT", uid, id, old) /\ Policy(tbl, "UPDATE", uid, id, old))
          THEN Result(db, "none", {})
        ELSE IF ~Policy(tbl, "UPDATE", uid, id, new) THEN Result(db, "42501", {})
        ELSE IF ~UniqueOk(db, tbl, id, new) THEN Result(db, "23505", {})
        ELSE IF ~ForeignKeysOk(db, tbl, id, new) THEN Result(db, "23503", {})
        ELSE Result([db EXCEPT ![tbl] = Put(@, id, new)], "none", {id})

\* insert into tbl values (row) on conflict (id) do update set row, as uid:
\* supabase-js upsert without onConflict arbitrates on the primary key
UpsertStmt(uid, tbl, id, row) ==
  IF id \in DOMAIN db[tbl] THEN UpdateStmt(uid, tbl, id, row) ELSE InsertStmt(uid, tbl, id, row)

OnDeleteTask_keeps_children(d, id) == [d EXCEPT !.tasks = Drop(@, {id})]

\* tasks row id goes: subtasks.task_id and reminders.task_id ON DELETE CASCADE,
\* notifications.task_id ON DELETE SET NULL
OnDeleteTask(d, id) ==
  [d EXCEPT
     !.tasks = Drop(@, {id}),
     !.subtasks = Drop(@, {s \in DOMAIN @ : @[s].task_id = id}),
     !.reminders = Drop(@, {r \in DOMAIN @ : @[r].task_id = id}),
     !.notifications =
        [n \in DOMAIN @ |-> IF @[n].task_id = id THEN [@[n] EXCEPT !.task_id = NULL] ELSE @[n]]]

OnDeleteCategory_cascade(d, id) ==
  [d EXCEPT
     !.categories = Drop(@, {id}),
     !.tasks = Drop(@, {t \in DOMAIN @ : @[t].category_id = id})]

\* categories row id goes: tasks.category_id ON DELETE SET NULL (an update
\* of the tasks rows, so their BEFORE UPDATE trigger runs)
OnDeleteCategory(d, id) ==
  [d EXCEPT
     !.categories = Drop(@, {id}),
     !.tasks =
        [t \in DOMAIN @ |->
           IF @[t].category_id = id
             THEN update_updated_at_column("tasks", [@[t] EXCEPT !.category_id = NULL])
             ELSE @[t]]]

\* delete from tbl where id = id, as uid
DeleteStmt(uid, tbl, id) ==
  IF id \notin DOMAIN db[tbl] THEN Result(db, "none", {})
  ELSE IF ~(Policy(tbl, "SELECT", uid, id, db[tbl][id]) /\ Policy(tbl, "DELETE", uid, id, db[tbl][id]))
    THEN Result(db, "none", {})
  ELSE IF tbl = "tasks" THEN Result(OnDeleteTask(db, id), "none", {id})
  ELSE IF tbl = "categories" THEN Result(OnDeleteCategory(db, id), "none", {id})
  ELSE Result([db EXCEPT ![tbl] = Drop(@, {id})], "none", {id})

\* ------------------------------------------------------ identity creation
\* Text values are sequences of characters; NoText is the SQL NULL of type
\* text and JsonNull the JSON null, neither of them a sequence of characters.
NoText == <<"NULL">>

JsonNull == <<"null">>

\* json ->> key: the value as text; NULL when the key is absent or holds null
json_text(json, key) ==
  IF key \in DOMAIN json /\ json[key] # JsonNull THEN json[key] ELSE NoText

\* split_part(str, delimiter, n): the n-th field of str, '' when there are fewer
RECURSIVE split_part(_, _, _)
split_part(str, delimiter, n) ==
  IF str = <<>> THEN <<>>
  ELSE IF Head(str) = delimiter
    THEN IF n = 1 THEN <<>> ELSE split_part(Tail(str), delimiter, n - 1)
    ELSE IF n = 1 THEN <<Head(str)>> \o split_part(Tail(str), delimiter, n)
         ELSE split_part(Tail(str), delimiter, n)

\* the new auth.users rows of the sign-ups: email and raw_user_meta_data
Metadata ==
  {[email |-> <<"e", "@", "x">>, raw_user_meta_data |-> json] :
     json \in {<<>>, ("display_name" :> <<"d">>), ("full_name" :> <<"f">>),
               ("display_name" :> <<"d">>) @@ ("full_name" :> <<"f">>)}}

NoMetadata == [email |-> <<"e", "@", "x">>, raw_user_meta_data |-> <<>>]

COALESCE_last_not_null(a, b, c) == IF b # NoText THEN b ELSE IF a # NoText THEN a ELSE c

\* COALESCE(a, b, c): the first argument that is not null
COALESCE(a, b, c) == IF a # NoText THEN a ELSE IF b # NoText THEN b ELSE c

\* the display_name handle_new_user gives the profile of the new row md
new_display_name(md) ==
  COALESCE(json_text(md.raw_user_meta_data, "display_name"),
           json_text(md.raw_user_meta_data, "full_name"),
           split_part(md.email, "@", 1))

handle_new_user_without_role(d, id, md) ==
  [d EXCEPT !.profiles = Put(@, id,
      [display_name |-> new_display_name(md), updated_at |-> now])]

\* AFTER INSERT ON auth.users: the profile row and the (id, 'user') role row.
\* SECURITY DEFINER: no policy applies to the two inserts.
handle_new_user(d, id, md) ==
  [d EXCEPT
     !.profiles = Put(@, id,
        [display_name |-> new_display_name(md), updated_at |-> now]),
     !.user_roles = Put(@, NewRoleId(d), [user_id |-> id, role |-> "user"])]

SignUp_not_atomic(d, u, md) ==
  IF u \in d.auth_users THEN d
  ELSE IF u \in DOMAIN d.profiles \/ ~UniqueOk(d, "user_roles", NULL, [user_id |-> u, role |-> "user"])
    THEN [d EXCEPT !.auth_users = @ \cup {u}]
  ELSE handle_new_user([d EXCEPT !.auth_users = @ \cup {u}], u, md)

\* insert into auth.users (id) values (u), on store d: one transaction with
\* the AFTER INSERT trigger; a primary key or unique violation in the
\* statement or in the trigger's two inserts aborts it as a whole
SignUp(d, u, md) ==
  IF u \in d.auth_users THEN d
  ELSE IF u \in DOMAIN d.profiles \/ ~UniqueOk(d, "user_roles", NULL, [user_id |-> u, role |-> "user"])
    THEN d
  ELSE handle_new_user([d EXCEPT !.auth_users = @ \cup {u}], u, md)

OnDeleteUser_keeps_tasks(d, u) ==
  [d EXCEPT !.auth_users = @ \ {u}, !.profiles = Drop(@, {u})]

\* auth.users row u goes: profiles.id and every user_id are ON DELETE
\* CASCADE; the tasks and categories that go take their own referential
\* actions with them (OnDeleteTask, OnDeleteCategory)
OnDeleteUser(d, u) ==
  LET own(f) == {i \in DOMAIN f : f[i].user_id = u}
      T == own(d.tasks)
      C == own(d.categories)
  IN  [auth_users |-> d.auth_users \ {u},
       profiles |-> Drop(d.profiles, {u}),
       user_roles |-> Drop(d.user_roles, own(d.user_roles)),
       categories |-> Drop(d.categories, C),
       tasks |->
          [t \in DOMAIN d.tasks \ T |->
             IF d.tasks[t].category_id \in C
               THEN update_updated_at_column("tasks", [d.tasks[t] EXCEPT !.category_id = NULL])
               ELSE d.tasks[t]],
       subtasks |->
          Drop(d.subtasks, own(d.subtasks) \cup {i \in DOMAIN d.subtasks : d.subtasks[i].task_id \in T}),
       reminders |->
          Drop(d.reminders, own(d.reminders) \cup {i \in DOMAIN d.reminders : d.reminders[i].task_id \in T}),
       notifications |->
          [n \in DOMAIN d.notifications \ own(d.notifications) |->
             IF d.notifications[n].task_id \in T
               THEN [d.notifications[n] EXCEPT !.task_id = NULL]
               ELSE d.notifications[n]],
       analytics |-> Drop(d.analytics, own(d.analytics))]

\* ---------------------------------------------------------------- requests
\* identity 1 is signed in; no dialog is open and no view has fetched yet
InitViews ==
  /\ session = 1
  /\ showDialog = FALSE
  /\ remindersView = {}
  /\ subtasksView = <<>>
  /\ adminView = [users |-> <<>>, tasks |-> {}]
  /\ dashboard = [tasks |-> {}, inFlight |-> {}, started |-> 0, applied |-> 0, events |-> 0]

\* The store as the migration leaves it, and the same after the operator has
\* signed up identity 1 and granted it the admin role from the SQL console
\* (no client request can create the first admin).
SeededDb ==
  LET d == handle_new_user([EmptyDb EXCEPT !.auth_users = {1}], 1, NoMetadata)
  IN  [d EXCEPT !.user_roles = Put(@, NewRoleId(d), [user_id |-> 1, role |-> "admin"])]

Init ==
  /\ now = 1
  /\ db \in {EmptyDb, SeededDb}
  /\ nextId = 1
  /\ insertedBy = <<>>
  /\ tasksView = <<>>
  /\ categoriesView = {}
  /\ toast = "none"
  /\ opFailed = FALSE
  /\ lastWrite = <<>>
  /\ InitViews

\* sign-up: insert into auth.users, which fires on_auth_user_created
CreateIdentity(u, md) ==
  /\ u \notin db.auth_users
  /\ \A v \in Users \ db.auth_users : u <= v
  /\ db' = SignUp(db, u, md)
  /\ UNCHANGED <<nextId, now, insertedBy, viewVars>>

\* the rows a caller can send to an owned table: the owner column and the
\* references are the caller's choice, the other columns take their defaults
NewRows(tbl, owner) ==
  CASE tbl = "categories" -> {[user_id |-> owner, updated_at |-> now]}
    [] tbl = "tasks" ->
         {[user_id |-> owner, category_id |-> c, title |-> <<"a">>, status |-> "pending",
           completed_at |-> NULL, is_starred |-> FALSE, updated_at |-> now]
            : c \in RowIds \cup {NULL}}
    [] tbl = "subtasks" -> {[task_id |-> t, user_id |-> owner, updated_at |-> now] : t \in RowIds}
    [] tbl = "reminders" -> {[task_id |-> t, user_id |-> owner, is_sent |-> FALSE] : t \in RowIds}
    [] tbl = "notifications" -> {[user_id |-> owner, task_id |-> t] : t \in RowIds \cup {NULL}}
    [] tbl = "analytics" -> {[user_id |-> owner, date |-> dt] : dt \in Dates}

\* a client inserts a row into an owned table
Insert(uid, tbl, owner) ==
  /\ nextId <= MaxRows
  /\ \E row \in NewRows(tbl, owner) :
       LET res == InsertStmt(uid, tbl, nextId, row)
       IN  /\ db' = res.db
           /\ nextId' = IF res.err = "none" THEN nextId + 1 ELSE nextId
           /\ insertedBy' = IF res.err = "none" THEN Put(insertedBy, nextId, uid) ELSE insertedBy
  /\ UNCHANGED <<now, viewVars>>

\* the SET lists a caller can send: one column of the row
Patches(tbl) ==
  {("user_id" :> u) : u \in Users}
  \cup (IF tbl = "tasks" THEN {("category_id" :> c) : c \in RowIds \cup {NULL}} ELSE {})
  \cup (IF tbl \in {"subtasks", "reminders"} THEN {("task_id" :> t) : t \in RowIds} ELSE {})
  \cup (IF tbl = "notifications" THEN {("task_id" :> t) : t \in RowIds \cup {NULL}} ELSE {})
  \cup (IF tbl = "analytics" THEN {("date" :> dt) : dt \in Dates} ELSE {})

\* a client updates the row id of a table
Update(uid, tbl, id, patch) ==
  /\ db' = UpdateStmt(uid, tbl, id, patch).db
  /\ UNCHANGED <<nextId, now, insertedBy, viewVars>>

\* a client deletes the row id of a table
Delete(uid, tbl, id) ==
  /\ db' = DeleteStmt(uid, tbl, id).db
  /\ UNCHANGED <<nextId, now, insertedBy, viewVars>>

\* auth.uid(): the identity whose session the request carries
Requesters == db.auth_users

Next ==
  \/ \E u \in Users : CreateIdentity(u, NoMetadata)
  \/ \E uid \in Requesters, tbl \in OwnedTables, owner \in Users : Insert(uid, tbl, owner)
  \/ \E uid \in Requesters, tbl \in OwnedTables :
       \E id \in DOMAIN db[tbl], patch \in Patches(tbl) : Update(uid, tbl, id, patch)
  \/ \E uid \in Requesters, tbl \in OwnedTables : \E id \in DOMAIN db[tbl] : Delete(uid, tbl, id)

Spec == Init /\ [][Next]_vars

\* ======================================================= claims, under Spec
\* the identities that hold role admin
Admins == {db.user_roles[i].user_id : i \in {j \in DOMAIN db.user_roles : db.user_roles[j].role = "admin"}}

\* Isolation of the statements aimed at a row: a row R of an owned table is
\* returned to an identity I other than its owner only when I is admin and
\* the table is categories, tasks or analytics; an update or a delete that I
\* aims at R, whatever it sets and whether or not I is admin, leaves the
\* store as it was; the owner itself is returned R.
StatementIsolation ==
  \A tbl \in OwnedTables : \A id \in DOMAIN db[tbl] :
     /\ id \in Select(tbl, db[tbl][id].user_id)
     /\ \A I \in Users \ {db[tbl][id].user_id} :
          /\ id \in Select(tbl, I) => I \in Admins /\ tbl \in {"categories", "tasks", "analytics"}
          /\ \A patch \in Patches(tbl) : UpdateStmt(I, tbl, id, patch).db = db
          /\ DeleteStmt(I, tbl, id).db = db

\* the rows of the owned tables that d holds and I does not own
RowsOfOthers(d, I) ==
  {<<tbl, id>> \in OwnedTables \X (1..MaxRows) : id \in DOMAIN d[tbl] /\ d[tbl][id].user_id # I}

\* d and e hold the same rows not owned by I, with the same columns
SameRowsOfOthers(d, e, I) ==
  /\ RowsOfOthers(d, I) = RowsOfOthers(e, I)
  /\ \A p \in RowsOfOthers(d, I) : d[p[1]][p[2]] = e[p[1]][p[2]]

\* C1. Owner isolation: an identity I cannot select a row R that it does not
\* own (unless I is admin and the table is categories, tasks or analytics),
\* and no update or delete that I sends, admin or not, changes or removes a
\* row that I does not own.
OwnerIsolation ==
  /\ StatementIsolation
  /\ \A I \in Requesters : \A tbl \in OwnedTables : \A id \in DOMAIN db[tbl] :
       /\ SameRowsOfOthers(db, DeleteStmt(I, tbl, id).db, I)
       /\ \A patch \in Patches(tbl) : SameRowsOfOthers(db, UpdateStmt(I, tbl, id, patch).db, I)

\* the (u, 'user') role rows, the (u, 'admin') role rows
RoleRows(u, r) == {i \in DOMAIN db.user_roles : db.user_roles[i] = [user_id |-> u, role |-> r]}

Bootstrapped(u) ==
  /\ u \in DOMAIN db.profiles
  /\ Cardinality(RoleRows(u, "user")) = 1
  /\ RoleRows(u, "admin") = {}

\* C2. The step that creates identity I leaves exactly one profiles row with
\* id = I, exactly one user_roles row (I, user) and no (I, admin) row.
IdentityBootstrap ==
  [][\A u \in Users : (u \notin db.auth_users /\ u \in db'.auth_users) => Bootstrapped(u)']_vars

\* identity 2 has signed up (identity 1 may be the operator's)
IdentityBootstrapReached == 2 \in db.auth_users /\ Bootstrapped(2)

\* C3. Owner column integrity: an insert into an owned table whose owner
\* column is not the requester is answered with an error and adds no row; an
\* update that would leave a row owned by somebody else than the requester
\* changes nothing; so every row is owned by the identity that inserted it.
OwnerColumnIntegrity ==
  \A tbl \in OwnedTables :
     /\ \A id \in DOMAIN db[tbl] : db[tbl][id].user_id = insertedBy[id]
     /\ \A uid \in db.auth_users : \A owner \in Users \ {uid} : \A row \in NewRows(tbl, owner) :
          LET res == InsertStmt(uid, tbl, nextId, row)
          IN  res.err # "none" /\ res.db = db
     /\ \A uid \in db.auth_users, id \in DOMAIN db[tbl] : \A patch \in Patches(tbl) :
          LET res == UpdateStmt(uid, tbl, id, patch)
          IN  (id \notin DOMAIN res.db[tbl] \/ res.db[tbl][id].user_id # uid) => res.db = db

\* a notification inserted by its owner, while another identity exists that
\* could try to insert one for that owner
OwnerColumnIntegrityReached ==
  \E n \in DOMAIN db.notifications : \E uid \in db.auth_users :
     /\ insertedBy[n] = db.notifications[n].user_id
     /\ uid # db.notifications[n].user_id
     /\ nextId <= MaxRows

\* C4. Admin read scope: an admin is returned every row of categories, tasks
\* and analytics, and of notifications, subtasks and reminders only its own.
AdminReadScope ==
  \A I \in Admins :
     /\ \A tbl \in {"categories", "tasks", "analytics"} : Select(tbl, I) = DOMAIN db[tbl]
     /\ \A tbl \in {"notifications", "subtasks", "reminders"} :
          Select(tbl, I) = {id \in DOMAIN db[tbl] : db[tbl][id].user_id = I}

\* an admin, and somebody else's task with a subtask of that somebody
AdminReadScopeReached ==
  \E I \in Admins : \E t \in DOMAIN db.tasks : \E s \in DOMAIN db.subtasks :
     /\ db.tasks[t].user_id # I
     /\ db.subtasks[s].user_id # I
     /\ t \in Select("tasks", I)
     /\ s \notin Select("subtasks", I)

\* C5. has_role(u, r) is true exactly when user_roles holds a row (u, r),
\* whoever asks: also for a row the one who asks is not returned.
HasRoleIffRow ==
  \A u \in Users \cup {NULL}, r \in app_role : has_role(u, r) <=> Cardinality(RoleRows(u, r)) >= 1

\* identity 1 is admin and user, identity 2 is user only and is not returned
\* the role rows of identity 1
HasRoleIffRowReached ==
  /\ has_role(1, "admin") /\ has_role(1, "user")
  /\ has_role(2, "user") /\ ~has_role(2, "admin")
  /\ RoleRows(1, "admin") \cap Select("user_roles", 2) = {}

\* C6. A delete of a task removes the subtasks and reminders that reference
\* it and keeps the notifications that reference it, with task_id null and
\* nothing else changed; no subtask, reminder or notification ever references
\* a task that does not exist.
TaskDeleteCascade ==
  /\ \A s \in DOMAIN db.subtasks : db.subtasks[s].task_id \in DOMAIN db.tasks
  /\ \A r \in DOMAIN db.reminders : db.reminders[r].task_id \in DOMAIN db.tasks
  /\ \A n \in DOMAIN db.notifications : db.notifications[n].task_id \in DOMAIN db.tasks \cup {NULL}
  /\ \A uid \in db.auth_users, t \in DOMAIN db.tasks :
       LET res == DeleteStmt(uid, "tasks", t)
       IN  t \in res.ids =>
             /\ t \notin DOMAIN res.db.tasks
             /\ \A s \in DOMAIN res.db.subtasks : res.db.subtasks[s].task_id # t
             /\ \A r \in DOMAIN res.db.reminders : res.db.reminders[r].task_id # t
             /\ DOMAIN res.db.notifications = DOMAIN db.notifications
             /\ \A n \in DOMAIN db.notifications :
                  res.db.notifications[n] =
                    IF db.notifications[n].task_id = t
                      THEN [db.notifications[n] EXCEPT !.task_id = NULL]
                      ELSE db.notifications[n]

\* a task that a subtask, a reminder or a notification references, and that
\* its owner can delete
TaskDeleteCascadeReached ==
  \E t \in DOMAIN db.tasks :
     /\ \/ \E s \in DOMAIN db.subtasks : db.subtasks[s].task_id = t
        \/ \E r \in DOMAIN db.reminders : db.reminders[r].task_id = t
        \/ \E n \in DOMAIN db.notifications : db.notifications[n].task_id = t
     /\ DeleteStmt(db.tasks[t].user_id, "tasks", t).ids = {t}

\* C7. analytics holds at most one row per (user_id, date); an insert of a
\* second row with the (user_id, date) of an existing one is answered with a
\* unique violation (23505) and leaves the store unchanged.
AnalyticsOnePerDay ==
  /\ \A a, b \in DOMAIN db.analytics :
       (db.analytics[a].user_id = db.analytics[b].user_id /\ db.analytics[a].date = db.analytics[b].date)
         => a = b
  /\ \A a \in DOMAIN db.analytics :
       LET res == InsertStmt(db.analytics[a].user_id, "analytics", nextId, db.analytics[a])
       IN  res.err = "23505" /\ res.db = db

\* an identity with an analytics row that can still send inserts
AnalyticsOnePerDayReached ==
  \E a \in DOMAIN db.analytics : nextId <= MaxRows /\ db.analytics[a].user_id \in Requesters

\* C11 as stated: an insert, update or delete whose target row fails the
\* policy is answered with an authorization error (42501), and the store is
\* left unchanged.
RejectedWritesAnswered ==
  \A uid \in Requesters : \A tbl \in OwnedTables :
     /\ \A owner \in Users \ {uid} : \A row \in NewRows(tbl, owner) :
          InsertStmt(uid, tbl, nextId, row) = Result(db, "42501", {})
     /\ \A id \in DOMAIN db[tbl] :
          db[tbl][id].user_id # uid =>
            /\ DeleteStmt(uid, tbl, id) = Result(db, "42501", {})
            /\ \A patch \in Patches(tbl) : UpdateStmt(uid, tbl, id, patch) = Result(db, "42501", {})

\* C11, amended. A write that fails the policy leaves the store unchanged,
\* and the caller is told so only when a new row fails WITH CHECK: an insert
\* for another owner, and an update that hands the requester's own row to
\* another owner, are answered with 42501; an update or a delete aimed at a
\* row of another owner matches no row and is answered without error.
RejectedWrites ==
  \A uid \in Requesters : \A tbl \in OwnedTables :
     /\ \A owner \in Users \ {uid} : \A row \in NewRows(tbl, owner) :
          InsertStmt(uid, tbl, nextId, row) = Result(db, "42501", {})
     /\ \A id \in DOMAIN db[tbl] :
          IF db[tbl][id].user_id # uid
            THEN /\ DeleteStmt(uid, tbl, id) = Result(db, "none", {})
                 /\ \A patch \in Patches(tbl) : UpdateStmt(uid, tbl, id, patch) = Result(db, "none", {})
            ELSE \A owner \in Users \ {uid} :
                    UpdateStmt(uid, tbl, id, ("user_id" :> owner)) = Result(db, "42501", {})

\* an admin is returned the task of somebody else, and its delete of that
\* task (AdminView.deleteTask) matches no row
RejectedWritesReached ==
  \E I \in Admins : \E t \in DOMAIN db.tasks :
     /\ db.tasks[t].user_id # I
     /\ t \in Select("tasks", I)
     /\ DeleteStmt(I, "tasks", t) = Result(db, "none", {})

\* what uid is returned by select * on every table of store d
ReadsOn(d, uid) == [tbl \in Tables |-> [id \in SelectOn(d, tbl, uid) |-> d[tbl][id]]]

\* select * from tbl where id = id, as uid, on store d
ReadById(d, tbl, uid, id) == [i \in SelectOn(d, tbl, uid) \cap {id} |-> d[tbl][i]]

\* the store with only the rows that uid is returned
VisibleStore(uid) ==
  [f \in DOMAIN db |->
     IF f = "auth_users" THEN db.auth_users ELSE [id \in SelectOn(db, f, uid) |-> db[f][id]]]

\* the store without row id of tbl
WithoutRow(tbl, id) == [db EXCEPT ![tbl] = Drop(@, {id})]

\* C12. Non-interference of reads: what an identity I (or a request without
\* session) is returned depends only on the rows I is returned: the store
\* without the rows hidden from I, or without one of them, gives I the same
\* results; a query for a hidden row returns the empty result, as for a row
\* that does not exist.
ReadNonInterference ==
  \A I \in Requesters \cup {NULL} :
     /\ ReadsOn(VisibleStore(I), I) = ReadsOn(db, I)
     /\ \A tbl \in Tables : \A id \in DOMAIN db[tbl] \ SelectOn(db, tbl, I) :
          /\ ReadsOn(WithoutRow(tbl, id), I) = ReadsOn(db, I)
          /\ ReadById(db, tbl, I, id) = <<>>
          /\ ReadById(WithoutRow(tbl, id), tbl, I, id) = ReadById(db, tbl, I, id)

\* identity 2 is returned rows of its own while a category of an admin, the
\* admin's profile and the admin's role rows are hidden from it
ReadNonInterferenceReached ==
  \E I \in Requesters \ Admins : \E a \in Admins : \E c \in DOMAIN db.categories :
     /\ db.categories[c].user_id = a
     /\ c \notin Select("categories", I)
     /\ a \notin Select("profiles", I)
     /\ Select("user_roles", I) # {}
     /\ Select("user_roles", I) # DOMAIN db.user_roles

\* ================================================ identities come and go
\* the operator deletes identity u (delete from auth.users)
DeleteIdentity(u) ==
  /\ db' = OnDeleteUser(db, u)
  /\ UNCHANGED <<nextId, now, insertedBy, viewVars>>

NextIdentity ==
  \/ \E u \in Users, md \in {NoMetadata, [NoMetadata EXCEPT !.email = <<"a", "@", "x">>]} :
       CreateIdentity(u, md)
  \/ \E uid \in Requesters, tbl \in OwnedTables : Insert(uid, tbl, uid)
  \/ \E u \in db.auth_users : DeleteIdentity(u)

SpecIdentity == Init /\ [][NextIdentity]_vars

\* a store where the bootstrap of identity u cannot succeed: a profiles row
\* with id u, or a (u, user) role row, is already there
BlockedStores(u) ==
  {[db EXCEPT !.profiles = Put(@, u, [display_name |-> <<"d">>, updated_at |-> now])],
   [db EXCEPT !.user_roles = Put(@, NewRoleId(db), [user_id |-> u, role |-> "user"])]}

\* C13. Bootstrap atomicity: the step that creates an identity leaves it
\* with its profile row and its (identity, user) role row; no profile or
\* role row is without its identity and no identity without its profile;
\* and where a bootstrap insert fails, the identity is not created: the
\* store stays as it was.
BootstrapAtomic ==
  /\ [](/\ DOMAIN db.profiles = db.auth_users
        /\ \A r \in DOMAIN db.user_roles : db.user_roles[r].user_id \in db.auth_users
        /\ \A u \in Users \ db.auth_users : \A md \in Metadata : \A d \in BlockedStores(u) :
             SignUp(d, u, md) = d)
  /\ [][\A u \in Users : (u \notin db.auth_users /\ u \in db'.auth_users) => Bootstrapped(u)']_vars

\* identity 1 was deleted and signed up again: its rows are those of the
\* second sign-up, while identity 2 has been there all along
BootstrapAtomicReached ==
  /\ db.auth_users = {1, 2}
  /\ Bootstrapped(1) /\ Bootstrapped(2)
  /\ \E id \in DOMAIN insertedBy : insertedBy[id] = 1 /\ \A tbl \in OwnedTables : id \notin DOMAIN db[tbl]

\* the rows of d that reference identity u
RowsOf(d, u) ==
  {<<tbl, id>> \in (OwnedTables \cup {"user_roles"}) \X (1..(2 * MaxUsers + MaxRows + 1)) :
      id \in DOMAIN d[tbl] /\ d[tbl][id].user_id = u}
  \cup {<<"profiles", id>> : id \in DOMAIN d.profiles \cap {u}}

\* C19. The step that deletes an identity leaves no profile, user_roles,
\* categories, tasks, subtasks, reminders, notifications or analytics row of
\* it; and in every state every row of these tables references an identity
\* that exists.
IdentityDeleteCascade ==
  /\ [](\A u \in Users \ db.auth_users : RowsOf(db, u) = {})
  /\ [][\A u \in Users : (u \in db.auth_users /\ u \notin db'.auth_users) => RowsOf(db', u) = {}]_vars

\* an identity that inserted rows is gone, and so are they, while another
\* identity and a row of it are still there
IdentityDeleteCascadeReached ==
  \E id \in DOMAIN insertedBy : \E o \in DOMAIN insertedBy :
     /\ insertedBy[id] \notin db.auth_users
     /\ \A tbl \in OwnedTables : id \notin DOMAIN db[tbl]
     /\ insertedBy[o] \in db.auth_users
     /\ \E tbl \in OwnedTables : o \in DOMAIN db[tbl]

\* ================================================================== roles
\* AdminView.promoteToAdmin(userId): the statement; the row carries no id,
\* so the column default generates one
promoteToAdminStmt(uid, userId) ==
  UpsertStmt(uid, "user_roles", NewRoleId(db), [user_id |-> userId, role |-> "admin"])

\* AdminView.promoteToAdmin(userId), in the session of uid
promoteToAdmin(uid, userId) ==
  /\ db' = promoteToAdminStmt(uid, userId).db
  /\ UNCHANGED <<nextId, now, insertedBy, viewVars>>

\* a client inserts the role row (u, r)
InsertRole(uid, u, r) ==
  /\ db' = InsertStmt(uid, "user_roles", NewRoleId(db), [user_id |-> u, role |-> r]).db
  /\ UNCHANGED <<nextId, now, insertedBy, viewVars>>

\* the SET lists a caller can send to user_roles: one column of the row
RolePatches == {("user_id" :> u) : u \in Users} \cup {("role" :> r) : r \in app_role}

\* (identity 1 creates one category: a row for an admin to be returned)
NextRoles ==
  \/ \E u \in Users : CreateIdentity(u, NoMetadata)
  \/ \E uid \in Requesters, userId \in Users : promoteToAdmin(uid, userId)
  \/ \E uid \in Requesters, u \in Users, r \in app_role : InsertRole(uid, u, r)
  \/ \E uid \in Requesters : \E id \in DOMAIN db.user_roles, patch \in RolePatches :
       Update(uid, "user_roles", id, patch)
  \/ \E uid \in Requesters : \E id \in DOMAIN db.user_roles : Delete(uid, "user_roles", id)
  \/ nextId = 1 /\ Insert(1, "categories", 1)

SpecRoles == Init /\ [][NextRoles]_vars

\* C14. A (user_id, role) pair occurs at most once in user_roles; an insert
\* of a pair that is there (also by promoteToAdmin, also by an admin) and an
\* update that would make a second row of a pair are answered with a unique
\* violation (23505) and leave the store unchanged.
RolePairUnique ==
  /\ \A a, b \in DOMAIN db.user_roles : db.user_roles[a] = db.user_roles[b] => a = b
  /\ \A I \in Admins : \A a \in DOMAIN db.user_roles :
       /\ InsertStmt(I, "user_roles", NewRoleId(db), db.user_roles[a]) = Result(db, "23505", {})
       /\ db.user_roles[a].role = "admin" =>
            promoteToAdminStmt(I, db.user_roles[a].user_id) = Result(db, "23505", {})
       /\ \A b \in DOMAIN db.user_roles \ {a} : \A patch \in RolePatches :
            Apply(db.user_roles[b], patch) = db.user_roles[a]
              => UpdateStmt(I, "user_roles", b, patch) = Result(db, "23505", {})

\* two admins: each can try to promote the other once more
RolePairUniqueReached ==
  \E I \in Admins : \E u \in Admins \ {I} : RoleRows(u, "admin") # {} /\ RoleRows(u, "user") # {}

\* C15. Promotion: promoteToAdmin(u) called by an admin for another
\* identity u that is not admin succeeds, leaves the row (u, admin) in
\* user_roles, so that has_role(u, admin) holds and u is returned every row of
\* categories, tasks and analytics.
PromotionGrantsAdmin ==
  /\ [](\A I \in Admins : \A u \in db.auth_users \ (Admins \cup {I}) :
          LET res == promoteToAdminStmt(I, u)
          IN  /\ res.err = "none"
              /\ \E r \in DOMAIN res.db.user_roles : res.db.user_roles[r] = [user_id |-> u, role |-> "admin"]
              /\ has_role_on(res.db, u, "admin")
              /\ \A tbl \in AdminReadTables : SelectOn(res.db, tbl, u) = DOMAIN res.db[tbl])
  /\ [][\A u \in db.auth_users \ Admins :
          (\E I \in Admins \ {u} : db' = promoteToAdminStmt(I, u).db)
            => /\ has_role(u, "admin")'
               /\ \A tbl \in AdminReadTables : Select(tbl, u)' = DOMAIN db'[tbl]]_vars

\* identity 2 has become admin and is returned a category of identity 1
PromotionGrantsAdminReached ==
  /\ 2 \in Admins /\ 1 \in Admins
  /\ \E c \in DOMAIN db.categories : db.categories[c].user_id = 1 /\ c \in Select("categories", 2)

\* the stores a request of uid on user_roles can leave: the insert of a row
\* (by insert or by the upsert of promoteToAdmin), the update of one column
\* of a row, the delete of a row
RoleRequests(uid) ==
  {InsertStmt(uid, "user_roles", NewRoleId(db), [user_id |-> u, role |-> r]).db :
     u \in Users, r \in app_role}
  \cup {promoteToAdminStmt(uid, u).db : u \in Users}
  \cup {UpdateStmt(uid, "user_roles", id, patch).db : id \in DOMAIN db.user_roles, patch \in RolePatches}
  \cup {DeleteStmt(uid, "user_roles", id).db : id \in DOMAIN db.user_roles}

\* every request of uid on user_roles leaves the store d
RoleRequestsAllLeave(uid, d) ==
  /\ \A u \in Users, r \in app_role :
       InsertStmt(uid, "user_roles", NewRoleId(db), [user_id |-> u, role |-> r]).db = d
  /\ \A u \in Users : promoteToAdminStmt(uid, u).db = d
  /\ \A id \in DOMAIN db.user_roles :
       /\ DeleteStmt(uid, "user_roles", id).db = d
       /\ \A patch \in RolePatches : UpdateStmt(uid, "user_roles", id, patch).db = d

\* C23. No privilege escalation: a request on user_roles of an identity that
\* is not admin (a signed-out caller included) changes nothing, its own rows
\* included; the set of admins changes only by a request of an identity
\* that is admin at that moment; and from a store without admin no request
\* and no identity creation leads to a store with one.
NoPrivilegeEscalation ==
  /\ [](\A uid \in (db.auth_users \cup {NULL}) \ Admins : RoleRequestsAllLeave(uid, db))
  /\ [][\/ db'.user_roles = db.user_roles
        \/ /\ Admins' # Admins => \E I \in Admins : db' \in RoleRequests(I)
           /\ Admins = {} => Admins' = {}]_vars

\* two identities, none of them admin, each with its role row
NoPrivilegeEscalationReached ==
  /\ db.auth_users = {1, 2} /\ Admins = {}
  /\ RoleRows(1, "user") # {} /\ RoleRows(2, "user") # {}

\* ================================================= the clock and updated_at
\* time passes
Tick ==
  /\ now < MaxTime
  /\ now' = now + 1
  /\ UNCHANGED <<db, nextId, insertedBy, viewVars>>

\* the SET lists sent to a table with an updated_at column: the caller's own
\* updated_at, or another column
TimePatches(tbl) ==
  {("updated_at" :> t) : t \in Times}
  \cup (IF tbl = "profiles" THEN {("display_name" :> <<"d">>)} ELSE Patches(tbl))

\* identity 1 has signed up and signed in; no view is mounted yet
InitApp ==
  /\ now = 1
  /\ db = handle_new_user([EmptyDb EXCEPT !.auth_users = {1}], 1, NoMetadata)
  /\ nextId = 1
  /\ insertedBy = <<>>
  /\ tasksView = <<>>
  /\ categoriesView = {}
  /\ toast = "none"
  /\ opFailed = FALSE
  /\ lastWrite = <<>>
  /\ InitViews

NextTime ==
  \/ Tick
  \/ \E uid \in Requesters, tbl \in {"categories", "tasks", "subtasks"} : Insert(uid, tbl, uid)
  \/ \E uid \in Requesters, tbl \in TouchedTables :
       \E id \in DOMAIN db[tbl], patch \in TimePatches(tbl) : Update(uid, tbl, id, patch)
  \/ \E uid \in Requesters : \E id \in DOMAIN db.categories : Delete(uid, "categories", id)

SpecTime == InitApp /\ [][NextTime]_vars

CategoryDeleteKeepsTaskColumns ==
  /\ \A t \in DOMAIN db.tasks : db.tasks[t].category_id \in DOMAIN db.categories \cup {NULL}
  /\ \A c \in DOMAIN db.categories :
       LET res == DeleteStmt(db.categories[c].user_id, "categories", c)
       IN  /\ res.ids = {c}
           /\ DOMAIN res.db.tasks = DOMAIN db.tasks
           /\ \A t \in DOMAIN db.tasks :
                res.db.tasks[t] =
                  IF db.tasks[t].category_id = c
                    THEN [db.tasks[t] EXCEPT !.category_id = NULL]
                    ELSE db.tasks[t]

\* C20, amended. The delete of a category by its owner deletes no task;
\* every task that referenced it stays with category_id null, updated_at
\* set to the time of the delete and all its other columns unchanged; the
\* other tasks are unchanged; no task references a category that does not
\* exist.
CategoryDeleteKeepsTasks ==
  /\ \A t \in DOMAIN db.tasks : db.tasks[t].category_id \in DOMAIN db.categories \cup {NULL}
  /\ \A c \in DOMAIN db.categories :
       LET res == DeleteStmt(db.categories[c].user_id, "categories", c)
       IN  /\ res.ids = {c}
           /\ c \notin DOMAIN res.db.categories
           /\ DOMAIN res.db.tasks = DOMAIN db.tasks
           /\ \A t \in DOMAIN db.tasks :
                res.db.tasks[t] =
                  IF db.tasks[t].category_id = c
                    THEN [db.tasks[t] EXCEPT !.category_id = NULL, !.updated_at = now]
                    ELSE db.tasks[t]

\* a task, last updated before now, in a category that its owner can delete
CategoryDeleteKeepsTasksReached ==
  \E c \in DOMAIN db.categories : \E t \in DOMAIN db.tasks :
     /\ db.tasks[t].category_id = c
     /\ db.tasks[t].updated_at < now
     /\ DeleteStmt(db.categories[c].user_id, "categories", c).ids = {c}

\* ================================================================ TasksView
\* useAuth().user
user == session

\* String.prototype.trim on a title (a sequence of characters)
RECURSIVE trimStart(_)
trimStart(str) == IF str # <<>> /\ Head(str) = " " THEN trimStart(Tail(str)) ELSE str

RECURSIVE trimEnd(_)
trimEnd(str) ==
  IF str # <<>> /\ str[Len(str)] = " " THEN trimEnd(SubSeq(str, 1, Len(str) - 1)) ELSE str

trim_nothing(str) == str

trim(str) == trimEnd(trimStart(str))

\* what the dialog can hold when Save is clicked; priority, description,
\* due_date and tags are not modelled, category_id is "" (no category)
FormTitles == {<<" ">>, <<"b", " ">>}

\* the code treats every status other than completed alike
FormStatuses == {"pending", "in_progress", "completed"}

Forms == [title : FormTitles, status : FormStatuses, is_starred : BOOLEAN]

\* the rows of uid as a view keeps them: the columns its handlers read
Fetched(d, uid) ==
  [id \in {i \in DOMAIN d.tasks :
             Policy("tasks", "SELECT", uid, i, d.tasks[i]) /\ d.tasks[i].user_id = uid}
     |-> [status |-> d.tasks[id].status, is_starred |-> d.tasks[id].is_starred]]

\* TasksView mounts (useEffect): fetchTasks
fetchTasks ==
  /\ user # NULL
  /\ tasksView' = Fetched(db, user)
  /\ UNCHANGED <<db, nextId, now, insertedBy, otherViews>>

saveTaskPayload_never_stamps(form) ==
  [title |-> trim(form.title), status |-> form.status, category_id |-> NULL,
   is_starred |-> form.is_starred, completed_at |-> NULL]

\* the payload of saveTask
saveTaskPayload(form) ==
  [title |-> trim(form.title), status |-> form.status, category_id |-> NULL,
   is_starred |-> form.is_starred,
   completed_at |-> IF form.status = "completed" THEN now ELSE NULL]

\* Save in the task dialog, opened by openEdit(editingTask) or by openCreate
\* (editingTask = NULL)
saveTask(editingTask, form) ==
  IF trim(form.title) = <<>> \/ user = NULL THEN UNCHANGED vars
  ELSE IF editingTask # NULL THEN
    LET res == UpdateStmt(user, "tasks", editingTask, saveTaskPayload(form))
    IN  /\ db' = res.db
        /\ tasksView' = IF res.err # "none" THEN tasksView ELSE Fetched(res.db, user)
        /\ showDialog' = IF res.err # "none" THEN showDialog ELSE FALSE
        /\ UNCHANGED <<nextId, now, insertedBy, categoriesView, toast, opFailed, lastWrite, restViews>>
  ELSE
    LET row == [user_id |-> user, updated_at |-> now] @@ saveTaskPayload(form)
        res == InsertStmt(user, "tasks", nextId, row)
    IN  /\ nextId <= MaxTasks
        /\ db' = res.db
        /\ nextId' = IF res.err = "none" THEN nextId + 1 ELSE nextId
        /\ insertedBy' = IF res.err = "none" THEN Put(insertedBy, nextId, user) ELSE insertedBy
        /\ tasksView' = IF res.err # "none" THEN tasksView ELSE Fetched(res.db, user)
        /\ showDialog' = IF res.err # "none" THEN showDialog ELSE FALSE
        /\ UNCHANGED <<now, categoriesView, toast, opFailed, lastWrite, restViews>>

\* the trash button of a listed task
deleteTask(id) ==
  /\ db' = DeleteStmt(user, "tasks", id).db
  /\ tasksView' = Drop(tasksView, {id})
  /\ UNCHANGED <<nextId, now, insertedBy, otherViews>>

\* the star button of a listed task
toggleStar(id) ==
  LET task == tasksView[id]
  IN  /\ db' = UpdateStmt(user, "tasks", id, [is_starred |-> ~task.is_starred]).db
      /\ tasksView' = [tasksView EXCEPT ![id].is_starred = ~@]
      /\ UNCHANGED <<nextId, now, insertedBy, otherViews>>

toggleStatusPatch_keeps_completed_at(task) ==
  [status |-> IF task.status = "completed" THEN "pending" ELSE "completed"]

\* the SET list of toggleStatus
toggleStatusPatch(task) ==
  LET newStatus == IF task.status = "completed" THEN "pending" ELSE "completed"
  IN  [status |-> newStatus, completed_at |-> IF newStatus = "completed" THEN now ELSE NULL]

\* the checkbox of a listed task
toggleStatus(id) ==
  LET task == tasksView[id]
  IN  /\ db' = UpdateStmt(user, "tasks", id, toggleStatusPatch(task)).db
      /\ tasksView' = [tasksView EXCEPT ![id].status = toggleStatusPatch(task).status]
      /\ UNCHANGED <<nextId, now, insertedBy, otherViews>>

NextApp ==
  \/ Tick
  \/ fetchTasks
  \/ \E form \in Forms : \E editingTask \in DOMAIN tasksView \cup {NULL} : saveTask(editingTask, form)
  \/ \E id \in DOMAIN tasksView : deleteTask(id)
  \/ \E id \in DOMAIN tasksView : toggleStar(id)
  \/ \E id \in DOMAIN tasksView : toggleStatus(id)

SpecApp == InitApp /\ [][NextApp]_vars

\* C9. After any sequence of saveTask, toggleStatus, toggleStar (and
\* deleteTask), every task has completed_at non-null exactly when its status
\* is completed; and the update of a pending task to status completed with
\* completed_at = the current time succeeds and reads back so.
CompletedAtIffCompleted ==
  /\ \A t \in DOMAIN db.tasks : (db.tasks[t].completed_at # NULL) <=> (db.tasks[t].status = "completed")
  /\ \A t \in DOMAIN db.tasks :
       db.tasks[t].status = "pending" =>
         LET res == UpdateStmt(db.tasks[t].user_id, "tasks", t,
                               [status |-> "completed", completed_at |-> now])
         IN  /\ res.err = "none"
             /\ res.db.tasks[t].status = "completed"
             /\ res.db.tasks[t].completed_at # NULL

\* a completed task, stamped, that the view lists as completed
CompletedAtIffCompletedReached ==
  \E t \in DOMAIN db.tasks \cap DOMAIN tasksView :
     /\ db.tasks[t].status = "completed" /\ db.tasks[t].completed_at # NULL
     /\ tasksView[t].status = "completed"

\* C10. completed_at is written exactly when the status becomes completed:
\* a step that takes a task from another status to completed stamps it with
\* the current time, and a step that leaves a completed task completed leaves
\* its completed_at as it was.
CompletedAtStampedOnce ==
  [][\A t \in DOMAIN db.tasks \cap DOMAIN db'.tasks :
       /\ (db.tasks[t].status # "completed" /\ db'.tasks[t].status = "completed")
            => db'.tasks[t].completed_at = now
       /\ (db.tasks[t].status = "completed" /\ db'.tasks[t].status = "completed")
            => db'.tasks[t].completed_at = db.tasks[t].completed_at]_vars

\* ============================================ CategoriesView, SettingsView
\* what a handler destructures from the awaited request: the result of the
\* statement, or, when the request did not reach the store, an error and
\* the store as it was
Reply(res, reached) == IF reached THEN res ELSE Result(db, "fetch", {})

\* the ids CategoriesView lists after fetchCategories
FetchedCategories(d, uid) ==
  {id \in SelectOn(d, "categories", uid) : d.categories[id].user_id = uid}

\* CategoriesView mounts (useEffect): fetchCategories
fetchCategories ==
  /\ user # NULL
  /\ categoriesView' = FetchedCategories(db, user)
  /\ opFailed' = FALSE
  /\ UNCHANGED <<db, nextId, now, insertedBy, tasksView, toast, lastWrite, moreViews>>

\* Save in the category dialog, opened by openEdit(editing) or by openCreate
\* (editing = NULL); name, color and icon are columns the model leaves out
CategoriesView_save(editing, name, reached) ==
  IF trim(name) = <<>> \/ user = NULL THEN UNCHANGED vars
  ELSE
    LET res == IF editing # NULL
                 THEN Reply(UpdateStmt(user, "categories", editing, <<>>), reached)
                 ELSE Reply(InsertStmt(user, "categories", nextId, [user_id |-> user, updated_at |-> now]),
                            reached)
    IN  /\ editing = NULL => nextId <= MaxRows
        /\ db' = res.db
        /\ nextId' = IF editing = NULL /\ res.err = "none" THEN nextId + 1 ELSE nextId
        /\ insertedBy' = IF editing = NULL /\ res.err = "none"
                           THEN Put(insertedBy, nextId, user) ELSE insertedBy
        /\ toast' = "success"
        /\ categoriesView' = FetchedCategories(res.db, user)
        /\ opFailed' = (res.err # "none")
        /\ showDialog' = FALSE
        /\ UNCHANGED <<now, tasksView, lastWrite, restViews>>

\* the trash button of a listed category
deleteCategory(id, reached) ==
  LET res == Reply(DeleteStmt(user, "categories", id), reached)
  IN  /\ db' = res.db
      /\ categoriesView' = categoriesView \ {id}
      /\ toast' = "success"
      /\ opFailed' = (res.err # "none")
      /\ UNCHANGED <<nextId, now, insertedBy, tasksView, lastWrite, moreViews>>

\* SettingsView: Save Changes (bio is a column the model leaves out)
saveProfile(displayName, reached) ==
  IF user = NULL THEN UNCHANGED vars
  ELSE
    LET res == Reply(UpdateStmt(user, "profiles", user, [display_name |-> displayName]), reached)
    IN  /\ db' = res.db
        /\ toast' = IF res.err # "none" THEN "error" ELSE "success"
        /\ opFailed' = (res.err # "none")
        /\ UNCHANGED <<nextId, now, insertedBy, tasksView, categoriesView, lastWrite, moreViews>>

NextViews ==
  \/ Tick
  \/ fetchCategories
  \/ \E editing \in categoriesView \cup {NULL}, name \in FormTitles, reached \in BOOLEAN :
       CategoriesView_save(editing, name, reached)
  \/ \E id \in categoriesView, reached \in BOOLEAN : deleteCategory(id, reached)
  \/ \E displayName \in {<<"d">>, <<"e">>}, reached \in BOOLEAN : saveProfile(displayName, reached)

SpecViews == InitApp /\ [][NextViews]_vars

\* C16. A handler whose write came back with an error shows an error toast
\* and leaves its list as it was: it neither reports success nor changes
\* the list as if the write had been done.
ErrorsSurfaced ==
  [][opFailed' => (toast' = "error" /\ categoriesView' = categoriesView)]_vars

\* ================================================ two clients, one task
\* two browser sessions of identity 1, each with its own TasksView
TwoClients == {1, 2}

\* what a TasksView may hold of a task when a handler runs: its copy of the
\* row is as old as its last fetch
LocalTasks == [status : FormStatuses, is_starred : BOOLEAN]

\* the SET list of toggleStar
toggleStarPatch(task) == [is_starred |-> ~task.is_starred]

\* the SET lists the update handlers of a TasksView can send for a task:
\* toggleStar, toggleStatus and the update branch of saveTask
HandlerPatches ==
  {toggleStarPatch(task) : task \in LocalTasks}
  \cup {toggleStatusPatch(task) : task \in LocalTasks}
  \cup {saveTaskPayload(form) : form \in {f \in Forms : trim(f.title) # <<>>}}

\* the history after client c wrote patch to a task: per column the value
\* written last, by whom, and whether it replaced a value of the other client
Written(old, patch, c) ==
  [col \in DOMAIN old \cup DOMAIN patch |->
     IF col \in DOMAIN patch
       THEN [value |-> patch[col], by |-> c,
             over |-> col \in DOMAIN old /\ old[col].by # c /\ old[col].value # patch[col]]
       ELSE old[col]]

\* an update handler of client c runs on task id: the store serializes the
\* statements, one step each
ClientUpdate(c, id, patch) ==
  LET res == UpdateStmt(user, "tasks", id, patch)
      old == IF id \in DOMAIN lastWrite THEN lastWrite[id] ELSE <<>>
  IN  /\ db' = res.db
      /\ lastWrite' = IF id \in res.ids THEN Put(lastWrite, id, Written(old, patch, c)) ELSE lastWrite
      /\ UNCHANGED <<nextId, now, insertedBy, tasksView, categoriesView, toast, opFailed, moreViews>>

\* identity 1 has signed up and created task 1; both clients list it
InitTwoClients ==
  /\ now = 1
  /\ db = [handle_new_user([EmptyDb EXCEPT !.auth_users = {1}], 1, NoMetadata)
             EXCEPT !.tasks = (1 :> [user_id |-> 1, updated_at |-> 1, title |-> <<"a">>,
                                     status |-> "pending", category_id |-> NULL,
                                     is_starred |-> FALSE, completed_at |-> NULL])]
  /\ nextId = 2
  /\ insertedBy = (1 :> 1)
  /\ tasksView = <<>>
  /\ categoriesView = {}
  /\ toast = "none"
  /\ opFailed = FALSE
  /\ lastWrite = <<>>
  /\ InitViews

NextTwoClients ==
  \/ Tick
  \/ \E c \in TwoClients : \E id \in DOMAIN db.tasks, patch \in HandlerPatches : ClientUpdate(c, id, patch)

SpecTwoClients == InitTwoClients /\ [][NextTwoClients]_vars

\* C17. Last writer wins: the store takes the updates of the two clients
\* one after the other and rejects none; after every update each column of
\* the row holds the value that the last update that set it wrote.
LastWriterWins ==
  /\ \A id \in DOMAIN lastWrite : \A col \in DOMAIN lastWrite[id] :
       db.tasks[id][col] = lastWrite[id][col].value
  /\ \A id \in DOMAIN db.tasks : \A patch \in HandlerPatches :
       LET res == UpdateStmt(user, "tasks", id, patch)
       IN  /\ res.err = "none" /\ res.ids = {id}
           /\ \A col \in DOMAIN patch : res.db.tasks[id][col] = patch[col]

\* client 2 has replaced the completed_at stamp of client 1 by a later one,
\* and client 1 the star of client 2
LastWriterWinsReached ==
  \E id \in DOMAIN lastWrite :
     /\ {"completed_at", "is_starred"} \subseteq DOMAIN lastWrite[id]
     /\ lastWrite[id].completed_at.by = 2 /\ lastWrite[id].completed_at.over
     /\ lastWrite[id].completed_at.value # NULL
     /\ lastWrite[id].is_starred.by = 1 /\ lastWrite[id].is_starred.over

\* ============================================================ RemindersView
\* the ids RemindersView lists after fetch
FetchedReminders(d, uid) ==
  {id \in SelectOn(d, "reminders", uid) : d.reminders[id].user_id = uid}

\* RemindersView mounts (useEffect): fetch
RemindersView_fetch ==
  /\ user # NULL
  /\ remindersView' = FetchedReminders(db, user)
  /\ UNCHANGED <<db, nextId, now, insertedBy, tasksView, categoriesView, toast, opFailed,
                 lastWrite, showDialog, session, subtasksView, adminView, dashboard>>

\* what the reminder dialog can hold when Set Reminder is clicked: "" (NULL)
\* or a task, "" (NULL) or a time; message is a column the model leaves out
ReminderForms == [task_id : RowIds \cup {NULL}, remind_at : {NULL, 1}]

\* the reminders created in a run get the ids after that of the first task
MaxReminderId == MaxRows + 1

RemindersView_saveStmt_upsert(form) ==
  LET row == [task_id |-> form.task_id, user_id |-> user, is_sent |-> FALSE]
      old == {r \in DOMAIN db.reminders : db.reminders[r].task_id = form.task_id}
  IN  IF old = {} THEN InsertStmt(user, "reminders", nextId, row)
      ELSE Result([db EXCEPT !.reminders = [r \in DOMAIN @ |-> IF r \in old THEN row ELSE @[r]]],
                  "none", old)

\* the statement of RemindersView.save: is_sent takes its default
RemindersView_saveStmt(form) ==
  InsertStmt(user, "reminders", nextId, [task_id |-> form.task_id, user_id |-> user, is_sent |-> FALSE])

\* Set Reminder in the reminder dialog
RemindersView_save(form, reached) ==
  IF form.task_id = NULL \/ form.remind_at = NULL \/ user = NULL THEN UNCHANGED vars
  ELSE
    LET res == Reply(RemindersView_saveStmt(form), reached)
    IN  /\ nextId <= MaxReminderId
        /\ db' = res.db
        /\ nextId' = IF res.err = "none" THEN nextId + 1 ELSE nextId
        /\ insertedBy' = IF res.err = "none" THEN Put(insertedBy, nextId, user) ELSE insertedBy
        /\ toast' = IF res.err # "none" THEN "error" ELSE "success"
        /\ opFailed' = (res.err # "none")
        /\ showDialog' = IF res.err # "none" THEN showDialog ELSE FALSE
        /\ remindersView' = IF res.err # "none" THEN remindersView ELSE FetchedReminders(res.db, user)
        /\ UNCHANGED <<now, tasksView, categoriesView, lastWrite, session, subtasksView,
                       adminView, dashboard>>

\* the trash button of a listed reminder
deleteReminder(id, reached) ==
  LET res == Reply(DeleteStmt(user, "reminders", id), reached)
  IN  /\ db' = res.db
      /\ remindersView' = remindersView \ {id}
      /\ toast' = "success"
      /\ opFailed' = (res.err # "none")
      /\ UNCHANGED <<nextId, now, insertedBy, tasksView, categoriesView, lastWrite, showDialog,
                     session, subtasksView, adminView, dashboard>>

\* a reminder is marked as sent: no code of the repository does it, the
\* policy lets the owner (and so a dispatcher acting for the owner) do it
MarkSent(id) == Update(db.reminders[id].user_id, "reminders", id, ("is_sent" :> TRUE))

\* identity 1 has signed up and created one task
InitReminders ==
  /\ now = 1
  /\ db = [handle_new_user([EmptyDb EXCEPT !.auth_users = {1}], 1, NoMetadata)
             EXCEPT !.tasks = (1 :> [user_id |-> 1, updated_at |-> 1, title |-> <<"a">>,
                                     status |-> "pending", category_id |-> NULL,
                                     is_starred |-> FALSE, completed_at |-> NULL])]
  /\ nextId = 2
  /\ insertedBy = (1 :> 1)
  /\ tasksView = <<>>
  /\ categoriesView = {}
  /\ toast = "none"
  /\ opFailed = FALSE
  /\ lastWrite = <<>>
  /\ InitViews

NextReminders ==
  \/ RemindersView_fetch
  \/ \E form \in ReminderForms, reached \in BOOLEAN : RemindersView_save(form, reached)
  \/ \E id \in remindersView, reached \in BOOLEAN : deleteReminder(id, reached)
  \/ \E id \in DOMAIN db.reminders : MarkSent(id)
  \/ fetchTasks
  \/ \E id \in DOMAIN tasksView : deleteTask(id)

SpecReminders == InitReminders /\ [][NextReminders]_vars

\* C21. Along the operations of the application (RemindersView save and
\* deleteReminder, the cascade of a task deletion) no step changes the
\* is_sent of a reminder from true back to false: a reminder that is sent
\* stays sent for as long as it exists, and the rows these operations
\* insert are new rows.
SentStaysSent ==
  [][\A r \in DOMAIN db.reminders :
       /\ r \in DOMAIN db'.reminders /\ db.reminders[r].is_sent => db'.reminders[r].is_sent
       /\ \A q \in DOMAIN db'.reminders \ DOMAIN db.reminders : q > r]_vars

\* a sent reminder is still sent after a second reminder was set for its task
SentStaysSentReached ==
  \E r, q \in DOMAIN db.reminders :
     /\ r < q /\ db.reminders[r].task_id = db.reminders[q].task_id
     /\ db.reminders[r].is_sent /\ ~db.reminders[q].is_sent
     /\ q \in remindersView

\* ================================================================== sign-up
\* the new auth.users rows of the sign-ups of this section: every state of
\* the two metadata keys (absent, null, a text, the empty text) and emails
\* with one and with two '@'
MetadataValues == {JsonNull, <<>>, <<"d">>}

Emails == {<<"e", "@", "x">>, <<"a", "b", "@", "x">>, <<"a", "@", "b", "@", "x">>}

NewIdentities ==
  {[email |-> e, raw_user_meta_data |-> json] :
     e \in Emails,
     json \in UNION {[K -> MetadataValues] : K \in SUBSET {"display_name", "full_name"}}}

NextSignUp ==
  \/ Tick
  \/ \E u \in Users, md \in NewIdentities : CreateIdentity(u, md)
  \/ \E u \in db.auth_users : DeleteIdentity(u)

SpecSignUp == Init /\ [][NextSignUp]_vars

\* a metadata key is present: it is there and holds a text
Present(md, key) ==
  key \in DOMAIN md.raw_user_meta_data /\ md.raw_user_meta_data[key] # JsonNull

\* p is the part of email before its first '@'
IsLocalPart(p, email) ==
  /\ Len(p) < Len(email) /\ SubSeq(email, 1, Len(p)) = p
  /\ email[Len(p) + 1] = "@"
  /\ \A i \in 1..Len(p) : p[i] # "@"

\* C22. The display name of the profile created by handle_new_user is the
\* metadata display_name when present, otherwise the metadata full_name when
\* present, otherwise the part of the email before the first '@'.
DisplayNameFallback ==
  \A u \in Users \ db.auth_users : \A md \in NewIdentities :
     LET name == SignUp(db, u, md).profiles[u].display_name
     IN  IF Present(md, "display_name") THEN name = md.raw_user_meta_data.display_name
         ELSE IF Present(md, "full_name") THEN name = md.raw_user_meta_data.full_name
         ELSE IsLocalPart(name, md.email)

\* the profiles of two sign-ups: one named by a metadata key, one by the
\* part of its email before the first of two '@'
DisplayNameFallbackReached ==
  /\ db.auth_users = {1, 2}
  /\ db.profiles[1].display_name = <<"d">>
  /\ db.profiles[2].display_name = <<"a">>

\* ================================================================ AdminView
\* the orders in which a select without ORDER BY can return the rows ids
RECURSIVE Orders(_)
Orders(ids) ==
  IF ids = {} THEN {<<>>}
  ELSE UNION {{<<i>> \o rest : rest \in Orders(ids \ {i})} : i \in ids}

\* roles.forEach((r) => { roleMap[r.user_id] = r.role; })
RECURSIVE roleMapOf(_, _)
roleMapOf(roles, roleMap) ==
  IF roles = <<>> THEN roleMap
  ELSE roleMapOf(Tail(roles), Put(roleMap, Head(roles).user_id, Head(roles).role))

\* the users and tasks state after fetchData, the role rows returned in order
\* (the 50 newest tasks: no more than 50 tasks exist in a run)
FetchedAdmin(order) ==
  LET roleMap == roleMapOf([k \in DOMAIN order |-> db.user_roles[order[k]]], <<>>)
  IN  [users |-> [p \in Select("profiles", user) |->
                    IF p \in DOMAIN roleMap THEN roleMap[p] ELSE "user"],
       tasks |-> Select("tasks", user)]

\* AdminView mounts (useEffect, when isAdmin): fetchData
AdminView_fetchData ==
  /\ has_role(user, "admin")
  /\ \E order \in Orders(Select("user_roles", user)) : adminView' = FetchedAdmin(order)
  /\ UNCHANGED <<db, nextId, now, insertedBy, tasksView, categoriesView, toast, opFailed,
                 lastWrite, showDialog, session, remindersView, subtasksView, dashboard>>

\* the trash button of a listed task
AdminView_deleteTask(taskId) ==
  LET res == DeleteStmt(user, "tasks", taskId)
  IN  /\ db' = res.db
      /\ adminView' = [adminView EXCEPT !.tasks = @ \ {taskId}]
      /\ toast' = "success"
      /\ opFailed' = (res.err # "none")
      /\ UNCHANGED <<nextId, now, insertedBy, tasksView, categoriesView, lastWrite, showDialog,
                     session, remindersView, subtasksView, dashboard>>

\* identity 1, the admin of the seeded store, is signed in
InitAdmin ==
  /\ now = 1
  /\ db = SeededDb
  /\ nextId = 1
  /\ insertedBy = <<>>
  /\ tasksView = <<>>
  /\ categoriesView = {}
  /\ toast = "none"
  /\ opFailed = FALSE
  /\ lastWrite = <<>>
  /\ InitViews

NextAdmin ==
  \/ \E u \in Users : CreateIdentity(u, NoMetadata)
  \/ \E uid \in Requesters : Insert(uid, "tasks", uid)
  \/ \E uid \in Requesters, userId \in Users : promoteToAdmin(uid, userId)
  \/ AdminView_fetchData
  \/ \E taskId \in adminView.tasks : AdminView_deleteTask(taskId)

SpecAdmin == InitAdmin /\ [][NextAdmin]_vars

\* C24. View/store agreement on delete: a row leaves the local list of a
\* view (TasksView, CategoriesView, RemindersView, AdminView) only if it is
\* absent from the store after that step; in particular for
\* AdminView.deleteTask on a task of another identity.
DeletedInViewGoneInStore ==
  [][/\ \A id \in adminView.tasks \ adminView'.tasks : id \notin DOMAIN db'.tasks
     /\ \A id \in DOMAIN tasksView \ DOMAIN tasksView' : id \notin DOMAIN db'.tasks
     /\ \A id \in categoriesView \ categoriesView' : id \notin DOMAIN db'.categories
     /\ \A id \in remindersView \ remindersView' : id \notin DOMAIN db'.reminders]_vars

RoleShownAgrees ==
  [][adminView'.users # adminView.users
       => \A u \in DOMAIN adminView'.users : (adminView'.users[u] = "admin") <=> has_role(u, "admin")']_vars

\* ================================================================ Dashboard
\* fetchTasks() is called: the select is sent and answered from the store
\* as it is; the response is on its way
\* (the 100 newest tasks: no more than 100 tasks exist in a run)
Dashboard_fetchTasks(d) ==
  [dashboard EXCEPT
     !.started = @ + 1,
     !.inFlight = @ \cup {[call |-> dashboard.started + 1, data |-> DOMAIN Fetched(d, user)]}]

\* Dashboard mounts (useEffect): fetchTasks() and the subscription
Dashboard_mount ==
  /\ user # NULL
  /\ dashboard.started = 0
  /\ dashboard' = Dashboard_fetchTasks(db)
  /\ UNCHANGED <<db, nextId, now, insertedBy, tasksView, categoriesView, toast, opFailed,
                 lastWrite, showDialog, session, remindersView, subtasksView, adminView>>

\* a task of the user is inserted or deleted (by any of its clients); the
\* mounted Dashboard is subscribed and will be sent the change
TaskChanged(res) ==
  /\ res.err = "none" /\ res.db # db
  /\ db' = res.db
  /\ nextId' = IF DOMAIN res.db.tasks \subseteq DOMAIN db.tasks THEN nextId ELSE nextId + 1
  /\ dashboard' = IF dashboard.started = 0 THEN dashboard
                  ELSE [dashboard EXCEPT !.events = @ + 1]
  /\ UNCHANGED <<now, insertedBy, tasksView, categoriesView, toast, opFailed,
                 lastWrite, showDialog, session, remindersView, subtasksView, adminView>>

\* a postgres_changes event arrives: () => fetchTasks()
Dashboard_onChange ==
  /\ dashboard.events > 0
  /\ dashboard' = [Dashboard_fetchTasks(db) EXCEPT !.events = @ - 1]
  /\ UNCHANGED <<db, nextId, now, insertedBy, tasksView, categoriesView, toast, opFailed,
                 lastWrite, showDialog, session, remindersView, subtasksView, adminView>>

\* the response of a call arrives: setTasks(data || [])
Dashboard_setTasks(response) ==
  /\ dashboard' = [dashboard EXCEPT !.tasks = response.data,
                                    !.applied = response.call,
                                    !.inFlight = @ \ {response}]
  /\ UNCHANGED <<db, nextId, now, insertedBy, tasksView, categoriesView, toast, opFailed,
                 lastWrite, showDialog, session, remindersView, subtasksView, adminView>>

NextDashboard ==
  \/ Dashboard_mount
  \/ \E row \in NewRows("tasks", user) :
       nextId <= MaxTasks /\ TaskChanged(InsertStmt(user, "tasks", nextId, row))
  \/ \E id \in DOMAIN db.tasks : TaskChanged(DeleteStmt(user, "tasks", id))
  \/ Dashboard_onChange
  \/ \E response \in dashboard.inFlight : Dashboard_setTasks(response)

SpecDashboard == InitApp /\ [][NextDashboard]_vars

\* C25. Dashboard refresh ordering: the response of an earlier fetchTasks
\* call that arrives late never replaces the result of a later call, and
\* once the changes have stopped (no event waits, no call is in flight) the
\* list shown is the store's current tasks of the user.
LatestFetchShown ==
  /\ [](dashboard.started > 0 /\ dashboard.events = 0 /\ dashboard.inFlight = {}
          => dashboard.tasks = DOMAIN Fetched(db, user))
  /\ [][dashboard'.applied >= dashboard.applied]_vars

\* ================================================== TasksView.toggleStatus
\* the store after toggleStatus(task) of the listed task id, compared with
\* the store before it: the status and completed_at written, and every
\* column outside of free left as it was
ToggleStatusWrites(id, task, free) ==
  LET res == UpdateStmt(user, "tasks", id, toggleStatusPatch(task))
      newStatus == IF task.status = "completed" THEN "pending" ELSE "completed"
      row == res.db.tasks[id]
  IN  /\ res.err = "none" /\ res.ids = {id}
      /\ row.status = newStatus /\ row.status \in {"pending", "completed"}
      /\ row.completed_at # NULL <=> newStatus = "completed"
      /\ \A col \in DOMAIN row \ ({"status", "completed_at"} \cup free) : row[col] = db.tasks[id][col]
      /\ DOMAIN res.db.tasks = DOMAIN db.tasks
      /\ \A t \in DOMAIN db.tasks \ {id} : res.db.tasks[t] = db.tasks[t]
      /\ \A tbl \in Tables \cup {"auth_users"} : tbl # "tasks" => res.db[tbl] = db[tbl]

\* C28, as stated. toggleStatus writes status pending when the status of
\* the task is completed and completed for every other status, completed_at
\* non-null exactly when the new status is completed, and changes no other
\* column of that task and no other task.
ToggleStatusFrameStrict ==
  \A id \in DOMAIN tasksView : \A status \in task_status :
     ToggleStatusWrites(id, [tasksView[id] EXCEPT !.status = status], {})

\* C28, amended. As above, except that updated_at of the task is set to the
\* time of the update by the trigger; and every step that is a toggleStatus
\* leaves the status of the task pending or completed.
ToggleStatusFrame ==
  /\ [](\A id \in DOMAIN tasksView : \A status \in task_status :
          /\ ToggleStatusWrites(id, [tasksView[id] EXCEPT !.status = status], {"updated_at"})
          /\ UpdateStmt(user, "tasks", id,
                        toggleStatusPatch([tasksView[id] EXCEPT !.status = status])).db.tasks[id].updated_at = now)
  /\ [][\A id \in DOMAIN tasksView :
          toggleStatus(id) =>
            /\ db'.tasks[id].status = (IF tasksView[id].status = "completed" THEN "pending" ELSE "completed")
            /\ tasksView'[id].status = db'.tasks[id].status
            /\ (db'.tasks[id].completed_at # NULL) <=> (db'.tasks[id].status = "completed")]_vars

\* a task completed at time 2 after it was created at time 1, listed as
\* completed
ToggleStatusFrameReached ==
  \E id \in DOMAIN tasksView :
     /\ tasksView[id].status = "completed" /\ db.tasks[id].status = "completed"
     /\ db.tasks[id].completed_at = 2 /\ db.tasks[id].updated_at = 2

\* ========================================================= input validation
\* the + button of a view: openCreate, or setShowDialog(true)
openCreate ==
  /\ showDialog' = TRUE
  /\ UNCHANGED <<db, nextId, now, insertedBy, tasksView, categoriesView, toast, opFailed,
                 lastWrite, restViews>>

\* Enter in the subtask input of the expanded task taskId
addSubtask(taskId, title) ==
  IF user = NULL \/ trim(title) = <<>> THEN UNCHANGED vars
  ELSE
    LET res == InsertStmt(user, "subtasks", nextId,
                          [task_id |-> taskId, user_id |-> user, updated_at |-> now])
        listed == IF taskId \in DOMAIN subtasksView THEN subtasksView[taskId] ELSE {}
    IN  /\ nextId <= MaxRows
        /\ db' = res.db
        /\ nextId' = IF res.err = "none" THEN nextId + 1 ELSE nextId
        /\ insertedBy' = IF res.err = "none" THEN Put(insertedBy, nextId, user) ELSE insertedBy
        /\ subtasksView' = IF res.err = "none"
                             THEN Put(subtasksView, taskId, listed \cup {nextId}) ELSE subtasksView
        /\ UNCHANGED <<now, tasksView, categoriesView, toast, opFailed, lastWrite, showDialog,
                       session, remindersView, adminView, dashboard>>

\* what a title or name input can hold: also nothing, and two spaces
FormTexts == FormTitles \cup {<<>>, <<" ", " ">>}

TaskForms == [title : FormTexts, status : {"pending"}, is_starred : {FALSE}]

\* identity 1 has signed up; its browser is signed in or signed out
InitForms ==
  /\ now = 1
  /\ db = handle_new_user([EmptyDb EXCEPT !.auth_users = {1}], 1, NoMetadata)
  /\ nextId = 1
  /\ insertedBy = <<>>
  /\ tasksView = <<>>
  /\ categoriesView = {}
  /\ toast = "none"
  /\ opFailed = FALSE
  /\ lastWrite = <<>>
  /\ session \in {NULL, 1}
  /\ showDialog = FALSE
  /\ remindersView = {}
  /\ subtasksView = <<>>
  /\ adminView = [users |-> <<>>, tasks |-> {}]
  /\ dashboard = [tasks |-> {}, inFlight |-> {}, started |-> 0, applied |-> 0, events |-> 0]

NextForms ==
  \/ Tick
  \/ openCreate
  \/ \E form \in TaskForms : \E editingTask \in DOMAIN tasksView \cup {NULL} : saveTask(editingTask, form)
  \/ \E editing \in categoriesView \cup {NULL}, name \in FormTexts, reached \in BOOLEAN :
       CategoriesView_save(editing, name, reached)
  \/ \E taskId \in DOMAIN tasksView, title \in FormTexts : addSubtask(taskId, title)
  \/ \E form \in ReminderForms, reached \in BOOLEAN : RemindersView_save(form, reached)

SpecForms == InitForms /\ [][NextForms]_vars

\* the text is empty or holds spaces only
Blank(str) == \A i \in 1..Len(str) : str[i] = " "

\* C29. Input validation leaves everything unchanged: saveTask with an
\* empty or whitespace-only title, CategoriesView.save with such a name,
\* addSubtask with such a title, RemindersView.save with no task or no
\* remind time, and each of them when no user is signed in, change neither
\* the store nor the state of the views (lists, dialog).
InvalidInputChangesNothing ==
  [][/\ \A form \in TaskForms : \A editingTask \in DOMAIN tasksView \cup {NULL} :
          (Blank(form.title) \/ session = NULL) /\ saveTask(editingTask, form) => UNCHANGED vars
     /\ \A name \in FormTexts : \A editing \in categoriesView \cup {NULL} :
          (Blank(name) \/ session = NULL)
            /\ (\E reached \in BOOLEAN : CategoriesView_save(editing, name, reached)) => UNCHANGED vars
     /\ \A title \in FormTexts : \A taskId \in DOMAIN tasksView :
          (Blank(title) \/ session = NULL) /\ addSubtask(taskId, title) => UNCHANGED vars
     /\ \A form \in ReminderForms :
          (form.task_id = NULL \/ form.remind_at = NULL \/ session = NULL)
            /\ (\E reached \in BOOLEAN : RemindersView_save(form, reached)) => UNCHANGED vars]_vars

\* the dialog is open again after a task and a reminder were saved
InvalidInputChangesNothingReached ==
  /\ session = 1 /\ showDialog
  /\ DOMAIN tasksView # {} /\ remindersView # {}

====
